---- MODULE Spec2Model ----
(***************************************************************************)
(* The simulation step engine of the robotic warehouse                     *)
(* (src/robotic_warehouse/warehouse.py): the two-layer occupancy grid, the *)
(* simultaneous-movement conflict resolution, the shelf request/delivery   *)
(* lifecycle with its rewards, and the termination bookkeeping.            *)
(*                                                                         *)
(* Cells are pairs <<x, y>>; entity ids are 1-based, 0 is "empty"/None.    *)
(* Rewards are counted in half-units (the code's 0.5 is 1, 1 is 2, ...).   *)
(***************************************************************************)
EXTENDS Integers, Sequences, FiniteSets, TLC

(* ----------------------------------------------------------------------- *)
(* Layout: the smallest warehouse that has shelves                         *)
(* ----------------------------------------------------------------------- *)
shelf_columns == 3
column_height == 1
shelf_rows == 1

grid_size == <<(column_height + 1) * shelf_rows + 2, (2 + 1) * shelf_columns + 1>>
GridH == grid_size[1]
GridW == grid_size[2]

Cells == (0 .. GridW - 1) \X (0 .. GridH - 1)

None == 0

Action == {"NOOP", "FORWARD", "LEFT", "RIGHT", "TOGGLE_LOAD"}
Direction == {"UP", "DOWN", "LEFT", "RIGHT"}
RewardType == {"GLOBAL", "INDIVIDUAL", "TWO_STAGE"}

is_highway(x, y) ==
    \/ x % 3 = 0
    \/ y % 9 = 0
    \/ y = GridH - 1
    \/ /\ y > GridH - 11
       /\ (x = (GridW \div 2) - 1 \/ x = GridW \div 2)

goals_first_cell == <<<<0, GridH - 1>>>>
goals == [i \in 1 .. GridW |-> <<i - 1, GridH - 1>>]

(* The cells in the raster order of np.indices(...).reshape(-1): y-major.  *)
RasterCell(k) == <<(k - 1) % GridW, (k - 1) \div GridW>>

RECURSIVE ShelfCellsFrom(_)
ShelfCellsFrom(k) ==
    IF k > GridH * GridW THEN <<>>
    ELSE LET c == RasterCell(k) IN
         IF is_highway(c[1], c[2]) THEN ShelfCellsFrom(k + 1)
         ELSE <<c>> \o ShelfCellsFrom(k + 1)

(* The shelves reset creates: one per non-highway cell, ids in raster order *)
NewShelfs == LET cs == ShelfCellsFrom(1) IN
             [i \in 1 .. Len(cs) |-> [x |-> cs[i][1], y |-> cs[i][2]]]

NumShelfs == Len(NewShelfs)

SeqToSet(s) == {s[i] : i \in 1 .. Len(s)}

IndexOf(s, e) == CHOOSE i \in 1 .. Len(s) : s[i] = e /\ \A j \in 1 .. i - 1 : s[j] # e

(* list.remove: drops the first occurrence                                  *)
ListRemove(s, e) ==
    LET i == IndexOf(s, e) IN
    [j \in 1 .. Len(s) - 1 |-> IF j < i THEN s[j] ELSE s[j + 1]]

(* ----------------------------------------------------------------------- *)
(* State                                                                   *)
(* ----------------------------------------------------------------------- *)
VARIABLES
    n_agents,              \* construction parameters
    request_queue_size,
    max_inactivity_steps,  \* None (0) = disabled
    max_steps,             \* None (0) = disabled
    reward_type,
    agents,                \* id -> [x, y, dir, req_action, carrying_shelf, has_delivered]
    shelfs,                \* id -> [x, y]
    grid,                  \* [agents: cell -> id, shelfs: cell -> id]
    shelf_original_coordinates, \* id -> <<y, x>>
    request_queue,         \* sequence of shelf ids
    carried_shelf,         \* sequence of shelf ids
    cur_inactive_steps,
    cur_steps,
    op,                    \* the last call: "init", "reset", "step"
    actions,               \* the joint action the last step was called with
    rewards,               \* what the last step returned (half-units)
    dones,
    mid,                   \* the state between the movement/toggle pass and the goal scan
    delivered,             \* the deliveries of the last step, in scan order
    error                  \* the exception the last call raised, "none" if none

vars == <<n_agents, request_queue_size, max_inactivity_steps, max_steps, reward_type,
          agents, shelfs, grid, shelf_original_coordinates, request_queue,
          carried_shelf, cur_inactive_steps, cur_steps, op, actions, rewards, dones,
          mid, delivered, error>>

config == <<n_agents, request_queue_size, max_inactivity_steps, max_steps, reward_type>>

(* A layer of the grid is kept as the function of its non-zero cells; a    *)
(* cell outside its domain holds 0.                                        *)
EmptyLayer == [c \in {} |-> 0]

At(layer, c) == IF c \in DOMAIN layer THEN layer[c] ELSE 0

(* layer[c] = id                                                           *)
Put(layer, c, id) ==
    IF id = 0 THEN [d \in (DOMAIN layer) \ {c} |-> layer[d]]
    ELSE (c :> id) @@ layer

(* _recalc_grid: clear, then write the shelves and the agents in list order *)
RECURSIVE WriteIds(_, _, _)
WriteIds(layer, ents, k) ==
    IF k > Len(ents) THEN layer
    ELSE WriteIds(Put(layer, <<ents[k].x, ents[k].y>>, k), ents, k + 1)

(* The shelf layer of the shelves as created (computed once)                *)
NewShelfLayer == WriteIds(EmptyLayer, NewShelfs, 1)

(* The coordinates reset records for the shelves, as (y, x)                 *)
NewShelfCoordinates == [s \in 1 .. NumShelfs |-> <<NewShelfs[s].y, NewShelfs[s].x>>]

recalc_grid(ags, shs) ==
    [agents |-> WriteIds(EmptyLayer, ags, 1),
     shelfs |-> IF shs = NewShelfs THEN NewShelfLayer ELSE WriteIds(EmptyLayer, shs, 1)]

(* Warehouse.__init__ *)
Construct(n, rqs, mis, ms, rt) ==
    /\ n_agents = n
    /\ request_queue_size = rqs
    /\ max_inactivity_steps = mis
    /\ max_steps = ms
    /\ reward_type = rt
    /\ agents = <<>>
    /\ shelfs = <<>>
    /\ grid = [agents |-> EmptyLayer, shelfs |-> EmptyLayer]
    /\ shelf_original_coordinates = <<>>
    /\ request_queue = <<>>
    /\ carried_shelf = <<>>
    /\ cur_inactive_steps = None
    /\ cur_steps = 0
    /\ op = "init"
    /\ actions = <<>>
    /\ rewards = <<>>
    /\ dones = <<>>
    /\ mid = [agents |-> <<>>, shelfs |-> <<>>]
    /\ delivered = <<>>
    /\ error = "none"

(* A reset that makes the shelves for the first episode only and leaves     *)
(* them where they are afterwards                                           *)
reset_keeps_shelfs(agent_locs, agent_dirs, queue) ==
    /\ Len(agent_locs) = n_agents
    /\ \A i, j \in 1 .. n_agents : i # j => agent_locs[i] # agent_locs[j]
    /\ Len(agent_dirs) = n_agents
    /\ Len(queue) = request_queue_size
    /\ \A i, j \in 1 .. Len(queue) : i # j => queue[i] # queue[j]
    /\ cur_inactive_steps' = 0
    /\ cur_steps' = 0
    /\ shelfs' = IF shelfs = <<>> THEN NewShelfs ELSE shelfs
    /\ agents' = [i \in 1 .. n_agents |->
                    [x |-> agent_locs[i][1], y |-> agent_locs[i][2],
                     dir |-> agent_dirs[i], req_action |-> "None",
                     carrying_shelf |-> None, has_delivered |-> FALSE]]
    /\ grid' = recalc_grid(agents', shelfs')
    /\ shelf_original_coordinates' = NewShelfCoordinates
    /\ request_queue' = queue
    /\ carried_shelf' = <<>>
    /\ op' = "reset"
    /\ actions' = <<>>
    /\ rewards' = <<>>
    /\ dones' = <<>>
    /\ mid' = [agents |-> <<>>, shelfs |-> <<>>]
    /\ delivered' = <<>>
    /\ error' = "none"
    /\ UNCHANGED config

(* Warehouse.reset, with its three random draws as parameters: the agents'  *)
(* cells (without replacement), their directions, and the request queue    *)
(* (without replacement).                                                  *)
reset(agent_locs, agent_dirs, queue) ==
    /\ Len(agent_locs) = n_agents
    /\ \A i, j \in 1 .. n_agents : i # j => agent_locs[i] # agent_locs[j]
    /\ Len(agent_dirs) = n_agents
    /\ Len(queue) = request_queue_size
    /\ \A i, j \in 1 .. Len(queue) : i # j => queue[i] # queue[j]
    /\ cur_inactive_steps' = 0
    /\ cur_steps' = 0
    /\ shelfs' = NewShelfs
    /\ agents' = [i \in 1 .. n_agents |->
                    [x |-> agent_locs[i][1], y |-> agent_locs[i][2],
                     dir |-> agent_dirs[i], req_action |-> "None",
                     carrying_shelf |-> None, has_delivered |-> FALSE]]
    /\ grid' = recalc_grid(agents', shelfs')
    /\ shelf_original_coordinates' = NewShelfCoordinates
    /\ request_queue' = queue
    /\ carried_shelf' = <<>>
    /\ op' = "reset"
    /\ actions' = <<>>
    /\ rewards' = <<>>
    /\ dones' = <<>>
    /\ mid' = [agents |-> <<>>, shelfs |-> <<>>]
    /\ delivered' = <<>>
    /\ error' = "none"
    /\ UNCHANGED config

(* ----------------------------------------------------------------------- *)
(* Agent.req_location / Agent.req_direction                                *)
(* ----------------------------------------------------------------------- *)
Max(a, b) == IF a >= b THEN a ELSE b
Min(a, b) == IF a <= b THEN a ELSE b

(* A requested cell that is not clamped to the grid                         *)
req_location_unclamped(a, req) ==
    IF req # "FORWARD" THEN <<a.x, a.y>>
    ELSE IF a.dir = "UP" THEN <<a.x, a.y - 1>>
    ELSE IF a.dir = "DOWN" THEN <<a.x, a.y + 1>>
    ELSE IF a.dir = "LEFT" THEN <<a.x - 1, a.y>>
    ELSE <<a.x + 1, a.y>>

req_location(a, req) ==
    IF req # "FORWARD" THEN <<a.x, a.y>>
    ELSE IF a.dir = "UP" THEN <<a.x, Max(0, a.y - 1)>>
    ELSE IF a.dir = "DOWN" THEN <<a.x, Min(GridH - 1, a.y + 1)>>
    ELSE IF a.dir = "LEFT" THEN <<Max(0, a.x - 1), a.y>>
    ELSE <<Min(GridW - 1, a.x + 1), a.y>>

(* The directions in the order of the Direction enum                        *)
wraplist_enum_order == <<"UP", "DOWN", "LEFT", "RIGHT">>

wraplist == <<"UP", "RIGHT", "DOWN", "LEFT">>

req_direction(a, req) ==
    LET k == IndexOf(wraplist, a.dir) - 1 IN
    IF req = "RIGHT" THEN wraplist[((k + 1) % Len(wraplist)) + 1]
    ELSE IF req = "LEFT" THEN wraplist[((k - 1) % Len(wraplist)) + 1]
    ELSE a.dir

(* ----------------------------------------------------------------------- *)
(* Movement resolution (Warehouse.step, first half)                        *)
(* ----------------------------------------------------------------------- *)

(* The standing-shelf rule: a carrying agent whose target holds a shelf    *)
(* that is not being carried by the agent occupying the target.            *)
StandingShelfCancels(i, acts) ==
    LET a == agents[i]
        start == <<a.x, a.y>>
        target == req_location(a, acts[i])
    IN /\ a.carrying_shelf # None
       /\ start # target
       /\ At(grid.shelfs, target) # 0
       /\ ~ (/\ At(grid.agents, target) # 0
             /\ agents[At(grid.agents, target)].carrying_shelf # None)

(* A standing-shelf rule that adds the self-loop but leaves req_action      *)
ReqAfterShelfRuleKeeps(acts) == acts

(* req_action of every agent after the standing-shelf rule                  *)
ReqAfterShelfRule(acts) ==
    [i \in 1 .. Len(agents) |-> IF StandingShelfCancels(i, acts) THEN "NOOP" ELSE acts[i]]

(* The edges of the intent graph G                                          *)
IntentEdges(acts) ==
    {<<<<agents[i].x, agents[i].y>>,
       IF StandingShelfCancels(i, acts) THEN <<agents[i].x, agents[i].y>>
       ELSE req_location(agents[i], acts[i])>> : i \in 1 .. Len(agents)}

GraphNodes(E) == {e[1] : e \in E} \cup {e[2] : e \in E}
Succ(E, n) == {e[2] : e \in {f \in E : f[1] = n}}

RECURSIVE WeakClosure(_, _)
WeakClosure(E, S) ==
    LET T == S \cup {e[2] : e \in {f \in E : f[1] \in S}}
              \cup {e[1] : e \in {f \in E : f[2] \in S}}
    IN IF T = S THEN S ELSE WeakClosure(E, T)

(* nx.weakly_connected_components, each as the edge set of its subgraph     *)
weakly_connected_components(E) ==
    {{e \in E : e[1] \in WeakClosure(E, {n})} : n \in GraphNodes(E)}

RECURSIVE FwdClosure(_, _)
FwdClosure(E, S) ==
    LET T == S \cup UNION {Succ(E, n) : n \in S}
    IN IF T = S THEN S ELSE FwdClosure(E, T)

(* A set of edges that is one simple directed cycle (a self-loop included)  *)
IsSimpleCycle(S) ==
    /\ S # {}
    /\ \A e \in S : /\ Cardinality({f \in S : f[1] = e[1]}) = 1
                    /\ Cardinality({f \in S : f[2] = e[1]}) = 1
    /\ \A e \in S : FwdClosure(S, {e[1]}) = {f[1] : f \in S}

(* nx.find_cycle on a component: the cycles it can return. Every cell has   *)
(* one outgoing edge per agent on it, so with one agent per cell the cycle  *)
(* of a component is unique.                                                *)
find_cycle(comp) == {S \in SUBSET comp : IsSimpleCycle(S)}

(* All maximal directed paths from n in an acyclic component, as node sets  *)
RECURSIVE PathsFrom(_, _)
PathsFrom(E, n) ==
    IF Succ(E, n) = {} THEN {{n}}
    ELSE {p \cup {n} : p \in UNION {PathsFrom(E, m) : m \in Succ(E, n)}}

(* A resolution that commits one shortest maximal path                      *)
dag_shortest_path(comp) ==
    LET all == UNION {PathsFrom(comp, n) : n \in GraphNodes(comp)}
    IN {p \in all : \A q \in all : Cardinality(p) <= Cardinality(q)}

(* A resolution that lets every agent of an acyclic component move          *)
dag_longest_path_all(comp) == {GraphNodes(comp)}

(* A resolution that commits any maximal path, whatever its length          *)
dag_any_path(comp) == UNION {PathsFrom(comp, n) : n \in GraphNodes(comp)}

(* nx.dag_longest_path: one longest path; which of several equally long     *)
(* ones depends on networkx's iteration order, so any of them               *)
dag_longest_path(comp) ==
    LET all == UNION {PathsFrom(comp, n) : n \in GraphNodes(comp)}
    IN {p \in all : \A q \in all : Cardinality(q) <= Cardinality(p)}

AgentIdsAt(nodes) == {At(grid.agents, c) : c \in nodes} \ {0}

(* A resolution that commits the agents of every cycle, swaps included      *)
ComponentCommitsSwaps(comp) ==
    IF find_cycle(comp) # {}
    THEN {AgentIdsAt({e[1] : e \in cycle}) : cycle \in find_cycle(comp)}
    ELSE {AgentIdsAt(p) : p \in dag_longest_path(comp)}

(* A resolution that rejects every cycle through more than one cell         *)
ComponentCommitsNoRotation(comp) ==
    IF find_cycle(comp) # {}
    THEN {IF Cardinality(cycle) >= 2 THEN {}
          ELSE AgentIdsAt({e[1] : e \in cycle}) : cycle \in find_cycle(comp)}
    ELSE {AgentIdsAt(p) : p \in dag_longest_path(comp)}

(* A resolution that skips every cycle of at most two edges, the self-loop  *)
(* of a standing agent included                                             *)
ComponentCommitsSkipsSelfLoops(comp) ==
    IF find_cycle(comp) # {}
    THEN {IF Cardinality(cycle) <= 2 THEN {}
          ELSE AgentIdsAt({e[1] : e \in cycle}) : cycle \in find_cycle(comp)}
    ELSE {AgentIdsAt(p) : p \in dag_longest_path(comp)}

(* The agent ids one component can commit                                   *)
ComponentCommits(comp) ==
    IF find_cycle(comp) # {}
    THEN {IF Cardinality(cycle) = 2 THEN {}
          ELSE AgentIdsAt({e[1] : e \in cycle}) : cycle \in find_cycle(comp)}
    ELSE {AgentIdsAt(p) : p \in dag_longest_path(comp)}

RECURSIVE CommitChoices(_)
CommitChoices(comps) ==
    IF comps = {} THEN {{}}
    ELSE LET c == CHOOSE c \in comps : TRUE
         IN {r \cup k : r \in CommitChoices(comps \ {c}), k \in ComponentCommits(c)}

(* The possible values of commited_agents for a joint action                *)
commited_agents(acts) == CommitChoices(weakly_connected_components(IntentEdges(acts)))

(* ----------------------------------------------------------------------- *)
(* Movement / toggle pass (Warehouse.step, the loop over the agents)       *)
(* ----------------------------------------------------------------------- *)

(* The coordinates of every shelf, requested or not                         *)
all_shelf_coordinates_tuple(g, shs, queue) ==
    {<<shs[s].y, shs[s].x>> : s \in 1 .. Len(shs)}

(* shelf_ids_coordinates(request_queue) as (y, x) pairs, on the layer that  *)
(* _recalc_grid has just written from shs: np.where finds a requested shelf *)
(* at its own position, unless a later shelf overwrote that cell            *)
requested_shelf_coordinates_tuple(g, shs, queue) ==
    {<<shs[s].y, shs[s].x>> :
        s \in {q \in SeqToSet(queue) : At(g.shelfs, <<shs[q].x, shs[q].y>>) = q}}

AddReward(rw, who, amount) == [k \in 1 .. Len(rw) |-> IF k \in who THEN rw[k] + amount ELSE rw[k]]

(* A reward index that is always the first agent                            *)
RewardIndexFirst(agent_id, n) == 1

(* rewards[agent_id - 1]: id 0 indexes the last entry                       *)
RewardIndex(agent_id, n) == IF agent_id = 0 THEN n ELSE agent_id

SetAgent(st, i, a) == [st EXCEPT !.agents = [st.agents EXCEPT ![i] = a]]
SetRewards(st, rw) == [st EXCEPT !.rewards = rw]

(* A pickup reward that GLOBAL pays to the picking agent only               *)
PickupRewardToPicker(st, g, cell, rt) ==
    LET n == Len(st.agents)
        who == RewardIndex(At(g.agents, cell), n)
    IN IF rt \in {"GLOBAL", "INDIVIDUAL"}
       THEN SetRewards(st, AddReward(st.rewards, {who}, 2))
       ELSE SetAgent(SetRewards(st, AddReward(st.rewards, {who}, 1)), who,
                     [st.agents[who] EXCEPT !.has_delivered = TRUE])

(* The reward of a successful pickup by the agent the agent layer shows on  *)
(* the cell                                                                 *)
PickupReward(st, g, cell, rt) ==
    LET n == Len(st.agents)
        who == RewardIndex(At(g.agents, cell), n)
    IN IF rt = "GLOBAL" THEN SetRewards(st, AddReward(st.rewards, 1 .. n, 2))
       ELSE IF rt = "INDIVIDUAL" THEN SetRewards(st, AddReward(st.rewards, {who}, 2))
       ELSE SetAgent(SetRewards(st, AddReward(st.rewards, {who}, 1)), who,
                     [st.agents[who] EXCEPT !.has_delivered = TRUE])

(* A pickup that takes the shelf out of the request queue: its slot gets a  *)
(* copy of the last slot                                                    *)
LoadLeavesQueue(st, i, g, queue, rt) ==
    LET a == st.agents[i]
        shelf_id == At(g.shelfs, <<a.x, a.y>>)
        st1 == IF shelf_id # 0
               THEN SetAgent(st, i, [a EXCEPT !.carrying_shelf = shelf_id]) ELSE st
        got == st1.agents[i].carrying_shelf
        st2 == IF got # None /\ got \in SeqToSet(queue)
               THEN PickupReward(st1, g, <<a.x, a.y>>, rt) ELSE st1
        q == st2.request_queue
    IN [agents |-> st2.agents, shelfs |-> st2.shelfs, grid |-> st2.grid,
        request_queue |-> [k \in 1 .. Len(q) |-> IF q[k] = got THEN q[Len(q)] ELSE q[k]],
        rewards |-> st2.rewards, carried_shelf |-> Append(st2.carried_shelf, got),
        delivered |-> st2.delivered, error |-> st2.error]

(* TOGGLE_LOAD of an agent that carries nothing and stands on the cell of a *)
(* requested shelf                                                          *)
Load(st, i, g, queue, rt) ==
    LET a == st.agents[i]
        shelf_id == At(g.shelfs, <<a.x, a.y>>)
        st1 == IF shelf_id # 0
               THEN SetAgent(st, i, [a EXCEPT !.carrying_shelf = shelf_id]) ELSE st
        got == st1.agents[i].carrying_shelf
        st2 == IF got # None /\ got \in SeqToSet(queue)
               THEN PickupReward(st1, g, <<a.x, a.y>>, rt) ELSE st1
    IN [st2 EXCEPT !.carried_shelf = Append(st2.carried_shelf, got)]

(* An unload that leaves has_delivered as it is                             *)
UnloadKeepsFlag(st, i, queue) ==
    LET a == st.agents[i] IN
    IF is_highway(a.x, a.y) THEN st
    ELSE IF a.carrying_shelf \in SeqToSet(queue) THEN st
    ELSE IF a.carrying_shelf \notin SeqToSet(st.carried_shelf)
         THEN [st EXCEPT !.error = "ValueError"]
    ELSE SetAgent([st EXCEPT !.carried_shelf = ListRemove(st.carried_shelf, a.carrying_shelf)],
                  i, [a EXCEPT !.carrying_shelf = None])

(* An unload that releases the shelf whether or not it is requested         *)
UnloadRequested(st, i, queue) ==
    LET a == st.agents[i] IN
    IF is_highway(a.x, a.y) THEN st
    ELSE IF a.carrying_shelf \notin SeqToSet(st.carried_shelf)
         THEN [st EXCEPT !.error = "ValueError"]
    ELSE SetAgent([st EXCEPT !.carried_shelf = ListRemove(st.carried_shelf, a.carrying_shelf)],
                  i, [a EXCEPT !.carrying_shelf = None, !.has_delivered = FALSE])

(* TOGGLE_LOAD of an agent that carries a shelf                             *)
Unload(st, i, queue) ==
    LET a == st.agents[i] IN
    IF is_highway(a.x, a.y) THEN st
    ELSE IF a.carrying_shelf \in SeqToSet(queue)
         THEN SetAgent(st, i, [a EXCEPT !.has_delivered = FALSE])
    ELSE IF a.carrying_shelf \notin SeqToSet(st.carried_shelf)
         THEN [st EXCEPT !.error = "ValueError"]
    ELSE SetAgent([st EXCEPT !.carried_shelf = ListRemove(st.carried_shelf, a.carrying_shelf)],
                  i, [a EXCEPT !.carrying_shelf = None, !.has_delivered = FALSE])

(* A FORWARD that leaves the carried shelf behind                            *)
ForwardLeavesShelf(st, i) ==
    LET a == st.agents[i]
        t == req_location(a, "FORWARD")
    IN SetAgent(st, i, [a EXCEPT !.x = t[1], !.y = t[2]])

(* FORWARD: the agent takes its requested cell and its shelf goes with it   *)
Forward(st, i) ==
    LET a == st.agents[i]
        t == req_location(a, "FORWARD")
        st1 == SetAgent(st, i, [a EXCEPT !.x = t[1], !.y = t[2]])
    IN IF a.carrying_shelf # None
       THEN [st1 EXCEPT !.shelfs = [st.shelfs EXCEPT ![a.carrying_shelf] =
                                       [x |-> t[1], y |-> t[2]]]]
       ELSE st1

(* One iteration of the loop: agent i with its final req_action             *)
MoveAgent(st, i, g, coords, queue, rt) ==
    LET a == st.agents[i]
        req == a.req_action
    IN IF req = "FORWARD" THEN Forward(st, i)
       ELSE IF req \in {"LEFT", "RIGHT"}
       THEN SetAgent(st, i, [a EXCEPT !.dir = req_direction(a, req)])
       ELSE IF /\ req = "TOGGLE_LOAD"
               /\ a.carrying_shelf = None
               /\ <<a.y, a.x>> \in coords
       THEN Load(st, i, g, queue, rt)
       ELSE IF req = "TOGGLE_LOAD" /\ a.carrying_shelf # None
       THEN Unload(st, i, queue)
       ELSE st

RECURSIVE MovePass(_, _, _, _, _, _)
MovePass(st, i, g, coords, queue, rt) ==
    IF i > Len(st.agents) \/ st.error # "none" THEN st
    ELSE MovePass(MoveAgent(st, i, g, coords, queue, rt), i + 1, g, coords, queue, rt)

(* ----------------------------------------------------------------------- *)
(* Goal scan (Warehouse.step, the loop over self.goals)                    *)
(* ----------------------------------------------------------------------- *)

(* A delivery reward that TWO_STAGE pays in full                            *)
DeliveryRewardFull(st, cell, rt) ==
    LET n == Len(st.agents)
        who == RewardIndex(At(st.grid.agents, cell), n)
    IN IF rt = "GLOBAL" THEN SetRewards(st, AddReward(st.rewards, 1 .. n, 4))
       ELSE IF rt = "INDIVIDUAL" THEN SetRewards(st, AddReward(st.rewards, {who}, 4))
       ELSE SetAgent(SetRewards(st, AddReward(st.rewards, {who}, 4)), who,
                     [st.agents[who] EXCEPT !.has_delivered = TRUE])

(* The reward of a delivery on the goal cell                                *)
DeliveryReward(st, cell, rt) ==
    LET n == Len(st.agents)
        who == RewardIndex(At(st.grid.agents, cell), n)
    IN IF rt = "GLOBAL" THEN SetRewards(st, AddReward(st.rewards, 1 .. n, 4))
       ELSE IF rt = "INDIVIDUAL" THEN SetRewards(st, AddReward(st.rewards, {who}, 4))
       ELSE SetAgent(SetRewards(st, AddReward(st.rewards, {who}, 2)), who,
                     [st.agents[who] EXCEPT !.has_delivered = TRUE])

(* A delivery that sets has_delivered and leaves the carry-link             *)
DetachFlagOnly(ags, shs, cell) ==
    [i \in 1 .. Len(ags) |->
        IF /\ ags[i].carrying_shelf # None
           /\ <<shs[ags[i].carrying_shelf].x, shs[ags[i].carrying_shelf].y>> = cell
        THEN [ags[i] EXCEPT !.has_delivered = TRUE]
        ELSE ags[i]]

(* A delivery that leaves the carry-links alone                             *)
DetachNobody(ags, shs, cell) == ags

(* Detach the delivered shelf from every agent whose carried shelf is on    *)
(* the goal cell                                                            *)
Detach(ags, shs, cell) ==
    [i \in 1 .. Len(ags) |->
        IF /\ ags[i].carrying_shelf # None
           /\ <<shs[ags[i].carrying_shelf].x, shs[ags[i].carrying_shelf].y>> = cell
        THEN [ags[i] EXCEPT !.has_delivered = TRUE, !.carrying_shelf = None]
        ELSE ags[i]]

(* A delivery that writes the shelf layer and leaves the shelf's own        *)
(* position on the goal cell                                                *)
DeliverLeavesShelf(st, cell, home, new_request, rt) ==
    LET shelf_id == At(st.grid.shelfs, cell)
        home_cell == <<home[shelf_id][2], home[shelf_id][1]>>
        slot == IndexOf(st.request_queue, shelf_id)
        st1 == [agents |-> Detach(st.agents, st.shelfs, cell),
                shelfs |-> st.shelfs,
                grid |-> [agents |-> st.grid.agents,
                          shelfs |-> Put(Put(st.grid.shelfs, cell, 0),
                                         home_cell, shelf_id)],
                request_queue |-> [st.request_queue EXCEPT ![slot] = new_request],
                rewards |-> st.rewards,
                carried_shelf |-> ListRemove(st.carried_shelf, shelf_id),
                delivered |-> Append(st.delivered,
                                     [shelf |-> shelf_id, cell |-> cell,
                                      agent |-> At(st.grid.agents, cell), slot |-> slot,
                                      new_request |-> new_request]),
                error |-> st.error]
    IN DeliveryReward(st1, cell, rt)

(* A delivery that puts the replacement into the first slot of the queue    *)
DeliverIntoFirstSlot(st, cell, home, new_request, rt) ==
    LET shelf_id == At(st.grid.shelfs, cell)
        home_cell == <<home[shelf_id][2], home[shelf_id][1]>>
        st1 == [agents |-> Detach(st.agents, st.shelfs, cell),
                shelfs |-> [st.shelfs EXCEPT ![shelf_id] =
                               [x |-> home[shelf_id][2], y |-> home[shelf_id][1]]],
                grid |-> [agents |-> st.grid.agents,
                          shelfs |-> Put(Put(st.grid.shelfs, cell, 0),
                                         home_cell, shelf_id)],
                request_queue |-> [st.request_queue EXCEPT ![1] = new_request],
                rewards |-> st.rewards,
                carried_shelf |-> ListRemove(st.carried_shelf, shelf_id),
                delivered |-> Append(st.delivered,
                                     [shelf |-> shelf_id, cell |-> cell,
                                      agent |-> At(st.grid.agents, cell),
                                      slot |-> IndexOf(st.request_queue, shelf_id),
                                      new_request |-> new_request]),
                error |-> st.error]
    IN DeliveryReward(st1, cell, rt)

(* A delivery that leaves the request queue as it was                       *)
DeliverKeepsQueue(st, cell, home, new_request, rt) ==
    LET shelf_id == At(st.grid.shelfs, cell)
        home_cell == <<home[shelf_id][2], home[shelf_id][1]>>
        st1 == [agents |-> Detach(st.agents, st.shelfs, cell),
                shelfs |-> [st.shelfs EXCEPT ![shelf_id] =
                               [x |-> home[shelf_id][2], y |-> home[shelf_id][1]]],
                grid |-> [agents |-> st.grid.agents,
                          shelfs |-> Put(Put(st.grid.shelfs, cell, 0),
                                         home_cell, shelf_id)],
                request_queue |-> st.request_queue,
                rewards |-> st.rewards,
                carried_shelf |-> ListRemove(st.carried_shelf, shelf_id),
                delivered |-> Append(st.delivered,
                                     [shelf |-> shelf_id, cell |-> cell,
                                      agent |-> At(st.grid.agents, cell),
                                      slot |-> IndexOf(st.request_queue, shelf_id),
                                      new_request |-> new_request]),
                error |-> st.error]
    IN DeliveryReward(st1, cell, rt)

(* The body of the loop for a goal cell that holds a requested shelf, with  *)
(* new_request the shelf np.random.choice draws                             *)
Deliver(st, cell, home, new_request, rt) ==
    LET shelf_id == At(st.grid.shelfs, cell)
        home_cell == <<home[shelf_id][2], home[shelf_id][1]>>
        slot == IndexOf(st.request_queue, shelf_id)
        st1 == [agents |-> Detach(st.agents, st.shelfs, cell),
                shelfs |-> [st.shelfs EXCEPT ![shelf_id] =
                               [x |-> home[shelf_id][2], y |-> home[shelf_id][1]]],
                grid |-> [agents |-> st.grid.agents,
                          shelfs |-> Put(Put(st.grid.shelfs, cell, 0),
                                         home_cell, shelf_id)],
                request_queue |-> [st.request_queue EXCEPT ![slot] = new_request],
                rewards |-> st.rewards,
                carried_shelf |-> ListRemove(st.carried_shelf, shelf_id),
                delivered |-> Append(st.delivered,
                                     [shelf |-> shelf_id, cell |-> cell,
                                      agent |-> At(st.grid.agents, cell), slot |-> slot,
                                      new_request |-> new_request]),
                error |-> st.error]
    IN DeliveryReward(st1, cell, rt)

(* A goal scan that draws the replacement among all shelves                 *)
ScanGoalAnyShelf(st, k, home, rt) ==
    LET cell == goals[k]
        shelf_id == At(st.grid.shelfs, cell)
    IN IF st.error # "none" THEN {st}
       ELSE IF shelf_id = 0 \/ shelf_id \notin SeqToSet(st.request_queue) THEN {st}
       ELSE {Deliver(st, cell, home, nr, rt) : nr \in 1 .. Len(st.shelfs)}

(* One iteration of the loop, for goal number k: the states it can leave   *)
ScanGoal(st, k, home, rt) ==
    LET cell == goals[k]
        shelf_id == At(st.grid.shelfs, cell)
        candidates == (1 .. Len(st.shelfs)) \ SeqToSet(st.request_queue)
    IN IF st.error # "none" THEN {st}
       ELSE IF shelf_id = 0 \/ shelf_id \notin SeqToSet(st.request_queue) THEN {st}
       ELSE IF shelf_id \notin SeqToSet(st.carried_shelf) \/ candidates = {}
       THEN {[st EXCEPT !.error = "ValueError"]}
       ELSE {Deliver(st, cell, home, nr, rt) : nr \in candidates}

(* The states the scan can end in, from goal number k on                    *)
RECURSIVE GoalScan(_, _, _, _)
GoalScan(sts, k, home, rt) ==
    IF k > Len(goals) THEN sts
    ELSE GoalScan(UNION {ScanGoal(st, k, home, rt) : st \in sts}, k + 1, home, rt)

(* ----------------------------------------------------------------------- *)
(* Warehouse.step                                                          *)
(* ----------------------------------------------------------------------- *)

(* A done flag that needs the counters to exceed their caps                 *)
DoneFlagStrict(inactive, steps) ==
    \/ max_inactivity_steps # None /\ inactive > max_inactivity_steps
    \/ max_steps # None /\ steps > max_steps

(* A done flag that looks at the step cap only                              *)
DoneFlagStepsOnly(inactive, steps) ==
    max_steps # None /\ steps >= max_steps

(* The done flag of a step that leaves the counters at inactive and steps   *)
DoneFlag(inactive, steps) ==
    \/ max_inactivity_steps # None /\ inactive >= max_inactivity_steps
    \/ max_steps # None /\ steps >= max_steps

(* step(actions), with commited the set of agent ids the component          *)
(* resolution commits (one of commited_agents(acts))                        *)
step(acts, commited) ==
    /\ op # "init"
    /\ error = "none"
    /\ Len(acts) = Len(agents)
    /\ LET n == Len(agents)
           req1 == ReqAfterShelfRule(acts)
           failed_agents == (1 .. n) \ commited
           ags0 == [i \in 1 .. n |->
                      [agents[i] EXCEPT !.req_action =
                          IF i \in failed_agents THEN "NOOP" ELSE req1[i]]]
           g1 == recalc_grid(agents, shelfs)
           st0 == [agents |-> ags0, shelfs |-> shelfs, grid |-> g1,
                   request_queue |-> request_queue, rewards |-> [i \in 1 .. n |-> 0],
                   carried_shelf |-> carried_shelf, delivered |-> <<>>, error |-> "none"]
           coords == requested_shelf_coordinates_tuple(g1, shelfs, request_queue)
           stm == MovePass(st0, 1, g1, coords, request_queue, reward_type)
           stg == IF stm.error = "none"
                  THEN [stm EXCEPT !.grid = recalc_grid(stm.agents, stm.shelfs)] ELSE stm
       IN IF \E i \in failed_agents : req1[i] # "FORWARD"
          THEN /\ error' = "AssertionError"
               /\ agents' = [i \in 1 .. n |-> [agents[i] EXCEPT !.req_action = req1[i]]]
               /\ mid' = [agents |-> <<>>, shelfs |-> <<>>]
               /\ rewards' = <<>>
               /\ dones' = <<>>
               /\ delivered' = <<>>
               /\ UNCHANGED <<shelfs, grid, request_queue, carried_shelf,
                              cur_inactive_steps, cur_steps>>
          ELSE \E fin \in GoalScan({stg}, 1, shelf_original_coordinates, reward_type) :
               /\ error' = fin.error
               /\ agents' = fin.agents
               /\ shelfs' = fin.shelfs
               /\ grid' = fin.grid
               /\ request_queue' = fin.request_queue
               /\ carried_shelf' = fin.carried_shelf
               /\ delivered' = fin.delivered
               /\ mid' = [agents |-> stm.agents, shelfs |-> stm.shelfs]
               /\ IF fin.error # "none"
                  THEN /\ rewards' = <<>>
                       /\ dones' = <<>>
                       /\ UNCHANGED <<cur_inactive_steps, cur_steps>>
                  ELSE /\ cur_inactive_steps' =
                              IF fin.delivered # <<>> THEN 0 ELSE cur_inactive_steps + 1
                       /\ cur_steps' = cur_steps + 1
                       /\ rewards' = fin.rewards
                       /\ dones' = [i \in 1 .. n |->
                                      DoneFlag(cur_inactive_steps', cur_steps')]
    /\ op' = "step"
    /\ actions' = acts
    /\ UNCHANGED <<config, shelf_original_coordinates>>

(* ----------------------------------------------------------------------- *)
(* Warehouse._make_obs: the observation reset and step return for an agent, *)
(* computed from the state they leave                                       *)
(* ----------------------------------------------------------------------- *)
sensor_range == 1

(* Direction.value                                                          *)
DirValue(d) == IF d = "UP" THEN 0 ELSE IF d = "DOWN" THEN 1 ELSE IF d = "LEFT" THEN 2 ELSE 3

(* np.pad(layer, sensor_range, mode="constant"): the layer with a frame of   *)
(* zeros, indexed from 0                                                    *)
Pad(layer) ==
    [c \in (0 .. GridW + 2 * sensor_range - 1) \X (0 .. GridH + 2 * sensor_range - 1) |->
        IF <<c[1] - sensor_range, c[2] - sensor_range>> \in Cells
        THEN At(layer, <<c[1] - sensor_range, c[2] - sensor_range>>) ELSE 0]

(* layer[min_y:max_y, min_x:max_x].reshape(-1): the rows of the window one  *)
(* after the other                                                          *)
Slice(layer, min_x, max_x, min_y, max_y) ==
    [k \in 1 .. (max_x - min_x) * (max_y - min_y) |->
        LET c == <<min_x + ((k - 1) % (max_x - min_x)), min_y + ((k - 1) \div (max_x - min_x))>>
        IN IF c \in DOMAIN layer THEN layer[c] ELSE 0]

(* The two windows of agent a, padded when they reach over the grid          *)
Window(layer, a) ==
    LET min_x == a.x - sensor_range
        max_x == a.x + sensor_range + 1
        min_y == a.y - sensor_range
        max_y == a.y + sensor_range + 1
    IN IF min_x < 0 \/ min_y < 0 \/ max_x > GridW \/ max_y > GridH
       THEN Slice(Pad(layer), min_x + sensor_range, max_x + sensor_range,
                  min_y + sensor_range, max_y + sensor_range)
       ELSE Slice(layer, min_x, max_x, min_y, max_y)

Flag(b) == IF b THEN 1 ELSE 0

make_obs(i) ==
    LET a == agents[i]
        ids_agents == Window(grid.agents, a)
        ids_shelfs == Window(grid.shelfs, a)
    IN [self |-> [location |-> <<a.x, a.y>>,
                  carrying_shelf |-> Flag(a.carrying_shelf # None),
                  direction |-> DirValue(a.dir),
                  on_highway |-> Flag(is_highway(a.x, a.y))],
        sensors |-> [k \in 1 .. Len(ids_agents) |->
                        [has_agent |-> Flag(ids_agents[k] # 0),
                         direction |-> IF ids_agents[k] = 0 THEN 0
                                       ELSE DirValue(agents[ids_agents[k]].dir),
                         has_shelf |-> Flag(ids_shelfs[k] # 0),
                         shelf_requested |->
                             IF ids_shelfs[k] = 0 THEN 0
                             ELSE Flag(ids_shelfs[k] \in SeqToSet(request_queue))]]]

(* ----------------------------------------------------------------------- *)
(* Specifications                                                          *)
(* ----------------------------------------------------------------------- *)

JointActions(alphabet) == [1 .. n_agents -> alphabet]

(* Steps explored per episode                                               *)
MaxSteps == 2

(* Spec: two agents, spawned on the left shelf block; three of its four     *)
(* shelves are requested                                                    *)
SpawnCells == {<<1, 1>>, <<2, 1>>, <<1, 2>>, <<2, 2>>}
SpawnDirs == {"DOWN", "UP"}
SpawnQueues == {<<5, 6, 1>>}

Init == Construct(2, 3, None, None, "GLOBAL")

Reset ==
    \E locs \in [1 .. n_agents -> SpawnCells] :
    \E dirs \in [1 .. n_agents -> SpawnDirs] :
    \E queue \in SpawnQueues : reset(locs, dirs, queue)

Step ==
    /\ cur_steps < MaxSteps
    /\ \E acts \in JointActions(Action) :
       \E commited \in commited_agents(acts) : step(acts, commited)

Next == Reset \/ Step

Spec == Init /\ [][Next]_vars

(* SpecChain: three agents in a row on y = 1, facing left or right; the     *)
(* shelf under the first cell is requested, the one under the second is not *)
ChainSteps == 2
ChainCells == {<<1, 1>>, <<2, 1>>, <<3, 1>>}
ChainDirs == {"RIGHT", "LEFT"}
ChainQueues == {<<1, 5, 6>>}
ChainActions == {"NOOP", "FORWARD", "TOGGLE_LOAD"}

InitChain == Construct(3, 3, None, None, "GLOBAL")

ResetChain ==
    \E locs \in [1 .. n_agents -> ChainCells] :
    \E dirs \in [1 .. n_agents -> ChainDirs] :
    \E queue \in ChainQueues : reset(locs, dirs, queue)

StepChain ==
    /\ cur_steps < ChainSteps
    /\ \E acts \in JointActions(ChainActions) :
       \E commited \in commited_agents(acts) : step(acts, commited)

NextChain == ResetChain \/ StepChain

SpecChain == InitChain /\ [][NextChain]_vars

(* SpecRot: four agents on the 2 x 2 shelf block, facing clockwise,         *)
(* counter-clockwise or pairwise at each other; all four shelves requested  *)
RotSteps == 2
RotLocs == {<<<<1, 1>>, <<2, 1>>, <<2, 2>>, <<1, 2>>>>,
            <<<<2, 2>>, <<1, 1>>, <<1, 2>>, <<2, 1>>>>}
RotQueues == {<<1, 2, 5, 6>>}
RotActions == {"NOOP", "FORWARD", "TOGGLE_LOAD"}

(* The direction that takes an agent on the block clockwise, or             *)
(* counter-clockwise, or towards its horizontal neighbour                   *)
Clockwise(c) ==
    IF c = <<1, 1>> THEN "RIGHT" ELSE IF c = <<2, 1>> THEN "DOWN"
    ELSE IF c = <<2, 2>> THEN "LEFT" ELSE "UP"
CounterClockwise(c) ==
    IF c = <<1, 1>> THEN "DOWN" ELSE IF c = <<1, 2>> THEN "RIGHT"
    ELSE IF c = <<2, 2>> THEN "UP" ELSE "LEFT"
Facing(c) == IF c[1] = 1 THEN "RIGHT" ELSE "LEFT"

InitRot == Construct(4, 4, None, None, "GLOBAL")

ResetRot ==
    \E locs \in RotLocs :
    \E dirs \in {[i \in 1 .. n_agents |-> Clockwise(locs[i])],
                 [i \in 1 .. n_agents |-> CounterClockwise(locs[i])],
                 [i \in 1 .. n_agents |-> Facing(locs[i])]} :
    \E queue \in RotQueues : reset(locs, dirs, queue)

StepRot ==
    /\ cur_steps < RotSteps
    /\ \E acts \in JointActions(RotActions) :
       \E commited \in commited_agents(acts) : step(acts, commited)

NextRot == ResetRot \/ StepRot

SpecRot == InitRot /\ [][NextRot]_vars

(* SpecInd, SpecTwo: as Spec, under the INDIVIDUAL and the TWO_STAGE reward *)
(* policy                                                                   *)
InitInd == Construct(2, 3, None, None, "INDIVIDUAL")
SpecInd == InitInd /\ [][Next]_vars

InitTwo == Construct(2, 3, None, None, "TWO_STAGE")
SpecTwo == InitTwo /\ [][Next]_vars

(* SpecCap: one agent spawned on a shelf cell facing the goal row, every    *)
(* combination of a step cap and an inactivity cap up to MaxCap, either of  *)
(* them possibly disabled                                                   *)
CapSteps == 3
MaxCap == 3
CapValues == {None} \cup (1 .. MaxCap)
CapCells == {<<1, 2>>, <<1, 1>>}
CapDirs == {"DOWN"}
CapQueues == {<<5, 6, 1>>}

InitCap ==
    \E mis \in CapValues : \E ms \in CapValues : Construct(1, 3, mis, ms, "GLOBAL")

ResetCap ==
    \E locs \in [1 .. n_agents -> CapCells] :
    \E dirs \in [1 .. n_agents -> CapDirs] :
    \E queue \in CapQueues : reset(locs, dirs, queue)

StepCap ==
    /\ cur_steps < CapSteps
    /\ \E acts \in JointActions(Action) :
       \E commited \in commited_agents(acts) : step(acts, commited)

NextCap == ResetCap \/ StepCap

SpecCap == InitCap /\ [][NextCap]_vars

(* SpecOverlap: three agents under the requested shelves 6, 5 and 1, the    *)
(* first beside and the third above the second, which faces the goal row    *)
OverlapSteps == 3
OverlapLocs == {<<<<2, 2>>, <<1, 2>>, <<1, 1>>>>}
OverlapDirs == {<<"LEFT", "DOWN", "DOWN">>, <<"DOWN", "DOWN", "DOWN">>}
OverlapQueues == {<<5, 6, 1>>}
OverlapActions == {"NOOP", "FORWARD", "TOGGLE_LOAD"}

InitOverlap == Construct(3, 3, None, None, "GLOBAL")

ResetOverlap ==
    \E locs \in OverlapLocs : \E dirs \in OverlapDirs :
    \E queue \in OverlapQueues : reset(locs, dirs, queue)

StepOverlap ==
    /\ cur_steps < OverlapSteps
    /\ \E acts \in JointActions(OverlapActions) :
       \E commited \in commited_agents(acts) : step(acts, commited)

NextOverlap == ResetOverlap \/ StepOverlap

SpecOverlap == InitOverlap /\ [][NextOverlap]_vars

(* SpecStage: one agent under the TWO_STAGE policy, spawned under a         *)
(* requested shelf and facing the aisle above the block or the goal row     *)
StageSteps == 3
StageCells == {<<1, 1>>, <<1, 2>>}
StageDirs == {"UP", "DOWN"}
StageQueues == {<<5, 6, 1>>}

InitStage == Construct(1, 3, None, None, "TWO_STAGE")

ResetStage ==
    \E locs \in [1 .. n_agents -> StageCells] :
    \E dirs \in [1 .. n_agents -> StageDirs] :
    \E queue \in StageQueues : reset(locs, dirs, queue)

StepStage ==
    /\ cur_steps < StageSteps
    /\ \E acts \in JointActions(Action) :
       \E commited \in commited_agents(acts) : step(acts, commited)

NextStage == ResetStage \/ StepStage

SpecStage == InitStage /\ [][NextStage]_vars

(* SpecContest: three agents on three of the four cells around the aisle    *)
(* cell (0, 1) and behind its right neighbour, each facing that cell along  *)
(* its row or column; the shelves of the two block cells are requested      *)
ContestSteps == 2
ContestCells == {<<0, 0>>, <<0, 2>>, <<1, 1>>, <<2, 1>>}
ContestQueues == {<<1, 2, 5>>}
ContestActions == {"NOOP", "FORWARD", "TOGGLE_LOAD"}

Towards(c) == IF c[1] > 0 THEN "LEFT" ELSE IF c[2] = 0 THEN "DOWN" ELSE "UP"

InitContest == Construct(3, 3, None, None, "GLOBAL")

ResetContest ==
    \E locs \in [1 .. n_agents -> ContestCells] :
    \E queue \in ContestQueues :
        reset(locs, [i \in 1 .. n_agents |-> Towards(locs[i])], queue)

StepContest ==
    /\ cur_steps < ContestSteps
    /\ \E acts \in JointActions(ContestActions) :
       \E commited \in commited_agents(acts) : step(acts, commited)

NextContest == ResetContest \/ StepContest

SpecContest == InitContest /\ [][NextContest]_vars

(* ----------------------------------------------------------------------- *)
(* Properties                                                              *)
(* ----------------------------------------------------------------------- *)
AgentIds == 1 .. Len(agents)
ShelfIds == 1 .. Len(shelfs)
AgentCell(i) == <<agents[i].x, agents[i].y>>
ShelfCell(s) == <<shelfs[s].x, shelfs[s].y>>
HomeCell(s) == <<shelf_original_coordinates[s][2], shelf_original_coordinates[s][1]>>
Carried(s) == \E i \in AgentIds : agents[i].carrying_shelf = s

(* C1: after reset and after every step, no two distinct agents occupy the  *)
(* same grid cell.                                                          *)
C1_AgentsOnDistinctCells ==
    \A i, j \in AgentIds : i # j => AgentCell(i) # AgentCell(j)

(* A step in which agent i moved into the cell that agent j also requested  *)
(* and j was cancelled.                                                     *)
C1_Witness ==
    /\ op = "step"
    /\ \E i, j \in AgentIds :
        /\ i # j
        /\ actions[i] = "FORWARD" /\ actions[j] = "FORWARD"
        /\ agents[i].req_action = "FORWARD" /\ agents[j].req_action = "NOOP"
        /\ req_location(agents[j], "FORWARD") = AgentCell(i)
        /\ AgentCell(j) # AgentCell(i)

(* C2: after reset and after every step, no two distinct shelves are at the *)
(* same grid cell, also after a delivered shelf went back to its home cell. *)
C2_ShelvesOnDistinctCells ==
    \A s, t \in ShelfIds : s # t => ShelfCell(s) # ShelfCell(t)

(* C3 as stated: an agent and a shelf in the same cell implies the agent    *)
(* carries that shelf.                                                      *)
C3_SharedCellMeansCarrying ==
    \A i \in AgentIds : \A s \in ShelfIds :
        AgentCell(i) = ShelfCell(s) => agents[i].carrying_shelf = s

(* C3 amended: an agent and a shelf in the same cell implies the agent      *)
(* carries that shelf or the shelf stands there, carried by no agent.       *)
C3_SharedCellCarriedOrStanding ==
    \A i \in AgentIds : \A s \in ShelfIds :
        AgentCell(i) = ShelfCell(s) => (agents[i].carrying_shelf = s \/ ~ Carried(s))

(* After a step, one agent is on the cell of the shelf it carries and       *)
(* another agent is under a standing shelf.                                 *)
C3_Witness ==
    /\ op = "step"
    /\ \E i, j \in AgentIds :
        /\ agents[i].carrying_shelf # None
        /\ AgentCell(i) = ShelfCell(agents[i].carrying_shelf)
        /\ agents[j].carrying_shelf = None
        /\ \E s \in ShelfIds : ShelfCell(s) = AgentCell(j) /\ ~ Carried(s)

(* C4: after reset and after every step the request queue holds exactly     *)
(* request_queue_size pairwise distinct shelves.                            *)
C4_QueueSizeAndDistinct ==
    op # "init" =>
        /\ Len(request_queue) = request_queue_size
        /\ \A k \in 1 .. Len(request_queue) : request_queue[k] \in ShelfIds
        /\ \A k, l \in 1 .. Len(request_queue) : k # l => request_queue[k] # request_queue[l]

(* A step with two deliveries.                                              *)
C4_Witness == op = "step" /\ Len(delivered) = 2

(* C5: after every step, every carried shelf has the position of the agent  *)
(* that carries it.                                                         *)
C5_CarriedShelfAtCarrier ==
    \A i \in AgentIds :
        agents[i].carrying_shelf # None => ShelfCell(agents[i].carrying_shelf) = AgentCell(i)

(* After a step an agent carries a shelf that is away from its home cell.   *)
C5_Witness ==
    /\ op = "step"
    /\ \E i \in AgentIds :
        /\ agents[i].carrying_shelf # None
        /\ agents[i].req_action = "FORWARD"
        /\ ShelfCell(agents[i].carrying_shelf) # HomeCell(agents[i].carrying_shelf)

(* ----------------------------------------------------------------------- *)
(* Properties of one step: unprimed variables are the state before the     *)
(* call, primed ones the state after it, actions' the joint action          *)
(* ----------------------------------------------------------------------- *)
StepTaken == op' = "step" /\ error' = "none"
Target(i) == req_location(agents[i], "FORWARD")
Stays(i) == agents'[i].x = agents[i].x /\ agents'[i].y = agents[i].y
MovesToTarget(i) == <<agents'[i].x, agents'[i].y>> = Target(i)
ComponentCells(i) == WeakClosure(IntentEdges(actions'), {AgentCell(i)})
IntentEdge(i, c) == actions'[i] = "FORWARD" /\ <<AgentCell(i), c>> \in IntentEdges(actions')

(* The cell an agent that has just moved FORWARD came from                  *)
Back(a) ==
    IF a.dir = "UP" THEN <<a.x, a.y + 1>>
    ELSE IF a.dir = "DOWN" THEN <<a.x, a.y - 1>>
    ELSE IF a.dir = "LEFT" THEN <<a.x + 1, a.y>>
    ELSE <<a.x - 1, a.y>>

(* C6: two agents in adjacent cells that each request FORWARD into the      *)
(* other's cell are both at their original cells after the step, and so is  *)
(* every other agent of their component of the intent graph.                *)
C6_SwapPairAndComponentStay ==
    [][StepTaken =>
        \A i, j \in AgentIds :
            (/\ i # j
             /\ actions'[i] = "FORWARD" /\ actions'[j] = "FORWARD"
             /\ Target(i) = AgentCell(j) /\ Target(j) = AgentCell(i))
            => \A k \in AgentIds : AgentCell(k) \in ComponentCells(i) => Stays(k)]_vars

(* After a step, two agents that requested FORWARD still face each other    *)
(* and a third that requested FORWARD into the cell of one of them was      *)
(* cancelled.                                                               *)
C6_Witness ==
    /\ op = "step"
    /\ \E i, j, k \in AgentIds :
        /\ i # j /\ k # i /\ k # j
        /\ actions[i] = "FORWARD" /\ actions[j] = "FORWARD" /\ actions[k] = "FORWARD"
        /\ req_location(agents[i], "FORWARD") = AgentCell(j)
        /\ req_location(agents[j], "FORWARD") = AgentCell(i)
        /\ req_location(agents[k], "FORWARD") = AgentCell(i)
        /\ agents[i].req_action = "NOOP" /\ agents[j].req_action = "NOOP"
        /\ agents[k].req_action = "NOOP"

(* The intent edges of the agents in S form one closed rotation             *)
Rotation(S) ==
    /\ Cardinality(S) >= 3
    /\ \A i \in S : actions'[i] = "FORWARD" /\ ~ StandingShelfCancels(i, actions')
    /\ IsSimpleCycle({<<AgentCell(i), Target(i)>> : i \in S})
    /\ Cardinality({<<AgentCell(i), Target(i)>> : i \in S}) = Cardinality(S)

(* C7: three or more agents whose FORWARD requests form a closed rotation   *)
(* through each other's cells, none cancelled by the standing-shelf rule,   *)
(* are all in the cell they requested after the step.                       *)
C7_RotationCommits ==
    [][StepTaken =>
        \A S \in SUBSET AgentIds : Rotation(S) => \A i \in S : MovesToTarget(i)]_vars

(* After a step, all four agents were committed to FORWARD, each one's old  *)
(* cell is now held by another agent, and they carry their shelves along.   *)
C7_Witness ==
    /\ op = "step"
    /\ Len(agents) = 4
    /\ \A i \in AgentIds :
        /\ actions[i] = "FORWARD" /\ agents[i].req_action = "FORWARD"
        /\ \E j \in AgentIds : j # i /\ AgentCell(j) = Back(agents[i])
        /\ agents[i].carrying_shelf # None

(* C8: in a chain where A requests FORWARD into B's cell, B into C's cell   *)
(* and C into an empty cell, with no other agent in the component of the    *)
(* intent graph, all three move in the step; and an agent that requests     *)
(* FORWARD into a cell whose occupant stays there stays where it is.        *)
(* The chain is one of the intent graph: its three requests are edges of G, *)
(* which a request cancelled by the standing-shelf rule is not.             *)
C8_ChainMovesBlockedStays ==
    [][StepTaken =>
        /\ \A a, b, c \in AgentIds :
            (/\ a # b /\ b # c /\ a # c
             /\ IntentEdge(a, AgentCell(b))
             /\ IntentEdge(b, AgentCell(c))
             /\ IntentEdge(c, Target(c))
             /\ At(grid.agents, Target(c)) = 0
             /\ AgentIdsAt(ComponentCells(a)) = {a, b, c})
            => MovesToTarget(a) /\ MovesToTarget(b) /\ MovesToTarget(c)
        /\ \A i, j \in AgentIds :
            (/\ i # j
             /\ actions'[i] = "FORWARD"
             /\ Target(i) = AgentCell(j)
             /\ Stays(j))
            => Stays(i)]_vars

(* After a step, three agents in a row were all committed to FORWARD, each  *)
(* follower now on the cell the agent ahead of it came from, and the agent  *)
(* at the head brought its shelf along.                                     *)
C8_Witness ==
    /\ op = "step"
    /\ \E a, b, c \in AgentIds :
        /\ a # b /\ b # c /\ a # c
        /\ \A i \in {a, b, c} : actions[i] = "FORWARD" /\ agents[i].req_action = "FORWARD"
        /\ AgentCell(a) = Back(agents[b])
        /\ AgentCell(b) = Back(agents[c])
        /\ agents[c].carrying_shelf # None

(* C9: an agent that is not carrying before a step is carrying after it     *)
(* only if it requested TOGGLE_LOAD and its cell held a shelf of the        *)
(* request queue, and it carries that shelf; TOGGLE_LOAD on a cell with no  *)
(* requested shelf leaves it not carrying.                                  *)
C9_PickupOnlyOfRequestedShelf ==
    [][StepTaken =>
        \A i \in AgentIds :
            agents[i].carrying_shelf = None =>
                /\ agents'[i].carrying_shelf # None =>
                    /\ actions'[i] = "TOGGLE_LOAD"
                    /\ agents'[i].carrying_shelf \in SeqToSet(request_queue)
                    /\ ShelfCell(agents'[i].carrying_shelf) = AgentCell(i)
                /\ (/\ actions'[i] = "TOGGLE_LOAD"
                    /\ ~ \E s \in SeqToSet(request_queue) : ShelfCell(s) = AgentCell(i))
                   => agents'[i].carrying_shelf = None]_vars

(* After the first step of an episode, one agent has picked up the          *)
(* requested shelf of its cell and another, that requested TOGGLE_LOAD on   *)
(* the cell of a shelf that is not requested, carries nothing.              *)
C9_Witness ==
    /\ op = "step" /\ cur_steps = 1
    /\ \E i, j \in AgentIds :
        /\ actions[i] = "TOGGLE_LOAD" /\ agents[i].carrying_shelf # None
        /\ actions[j] = "TOGGLE_LOAD" /\ agents[j].carrying_shelf = None
        /\ \E s \in ShelfIds : ShelfCell(s) = AgentCell(j) /\ s \notin SeqToSet(request_queue)

(* The requested shelf s is on the goal cell c after the movement pass of   *)
(* the step, carried there by agent i                                       *)
OnGoalAfterMoves(s, c, i) ==
    /\ c \in SeqToSet(goals)
    /\ s \in SeqToSet(request_queue)
    /\ <<mid'.shelfs[s].x, mid'.shelfs[s].y>> = c
    /\ mid'.agents[i].carrying_shelf = s

(* What every delivery leaves at the end of the step                        *)
DeliveredHome(s, c, i) ==
    /\ <<shelfs'[s].x, shelfs'[s].y>> = HomeCell(s)
    /\ \A k \in AgentIds : agents'[k].carrying_shelf # s
    /\ <<agents'[i].x, agents'[i].y>> = c
    /\ agents'[i].has_delivered

(* C10 as stated: a requested shelf on a goal cell after the movement pass  *)
(* is, at the end of the step, at its home cell, carried by no agent, its   *)
(* carrier still on the goal cell with has_delivered set, and not a member  *)
(* of the request queue.                                                    *)
C10_DeliveredLeavesQueue ==
    [][StepTaken =>
        \A s \in ShelfIds : \A c \in SeqToSet(goals) : \A i \in AgentIds :
            OnGoalAfterMoves(s, c, i) =>
                /\ DeliveredHome(s, c, i)
                /\ s \notin SeqToSet(request_queue')]_vars

(* C10 amended: ... and the queue slot that held the shelf holds another    *)
(* shelf; the delivered shelf itself can be back in the queue, in another   *)
(* slot, as the replacement of another shelf delivered in the same step.    *)
C10_DeliveredLeavesItsSlot ==
    [][StepTaken =>
        \A s \in ShelfIds : \A c \in SeqToSet(goals) : \A i \in AgentIds :
            OnGoalAfterMoves(s, c, i) =>
                /\ DeliveredHome(s, c, i)
                /\ request_queue'[IndexOf(request_queue, s)] # s]_vars

(* After a step with two deliveries, the shelf delivered first is in the    *)
(* request queue again.                                                     *)
C10_Witness ==
    /\ op = "step"
    /\ \E k \in 1 .. Len(delivered) :
        /\ delivered[k].shelf \in SeqToSet(request_queue)
        /\ request_queue[delivered[k].slot] # delivered[k].shelf
        /\ ShelfCell(delivered[k].shelf) = HomeCell(delivered[k].shelf)

(* The request queue after the first k deliveries of the step, from the     *)
(* queue before the step: each delivered shelf gives its slot to the shelf  *)
(* drawn for it                                                             *)
RECURSIVE QueueAfter(_)
QueueAfter(k) ==
    IF k = 0 THEN request_queue
    ELSE LET q == QueueAfter(k - 1)
         IN [q EXCEPT ![IndexOf(q, delivered'[k].shelf)] = delivered'[k].new_request]

(* C11: on each delivery the replacement shelf was not a member of the      *)
(* request queue immediately before the replacement (so it is not the shelf *)
(* just delivered), it takes the delivered shelf's slot, and all other      *)
(* slots of the queue are unchanged.                                        *)
C11_ReplacementTakesSlot ==
    [][StepTaken =>
        /\ \A k \in 1 .. Len(delivered') :
            /\ delivered'[k].shelf \in SeqToSet(QueueAfter(k - 1))
            /\ delivered'[k].new_request \notin SeqToSet(QueueAfter(k - 1))
            /\ delivered'[k].new_request # delivered'[k].shelf
        /\ request_queue' = QueueAfter(Len(delivered'))]_vars

(* After a step, a delivered shelf that was not in the first slot of the    *)
(* queue has been replaced there by the shelf drawn for it.                 *)
C11_Witness ==
    /\ op = "step"
    /\ \E k \in 1 .. Len(delivered) :
        /\ delivered[k].slot # 1
        /\ request_queue[delivered[k].slot] = delivered[k].new_request
        /\ delivered[k].new_request # delivered[k].shelf

(* No requested shelf is on a goal cell after the movement pass             *)
NoDeliveryDue ==
    \A s \in SeqToSet(request_queue) :
        <<mid'.shelfs[s].x, mid'.shelfs[s].y>> \notin SeqToSet(goals)

(* C12: a step in which no delivery occurs leaves the request queue         *)
(* unchanged, the same shelves in the same slots.                           *)
C12_QueueKeptWithoutDelivery ==
    [][(StepTaken /\ NoDeliveryDue) => request_queue' = request_queue]_vars

(* After a step without delivery, one agent has picked up a shelf and       *)
(* another has moved, and the picked shelf is still in the queue.           *)
C12_Witness ==
    /\ op = "step" /\ cur_steps = 1
    /\ delivered = <<>>
    /\ \E i, j \in AgentIds :
        /\ actions[i] = "TOGGLE_LOAD"
        /\ agents[i].carrying_shelf \in SeqToSet(request_queue)
        /\ actions[j] = "FORWARD" /\ agents[j].req_action = "FORWARD"
        /\ Back(agents[j]) # AgentCell(j)

(* The agents that picked up a shelf in the step, and the requested shelves *)
(* that were on a goal cell after its movement pass                         *)
PickedUp == {i \in AgentIds : agents[i].carrying_shelf = None
                              /\ mid'.agents[i].carrying_shelf # None}
DeliveredShelves ==
    {s \in SeqToSet(request_queue) :
        <<mid'.shelfs[s].x, mid'.shelfs[s].y>> \in SeqToSet(goals)}

(* C13: under GLOBAL the rewards of a step are the same for all agents and  *)
(* equal 1 per successful pickup plus 2 per delivery of the step (in        *)
(* half-units: 2 and 4).                                                    *)
C13_GlobalReward ==
    [][(StepTaken /\ reward_type = "GLOBAL") =>
        \A i \in AgentIds :
            rewards'[i] = 2 * Cardinality(PickedUp) + 4 * Cardinality(DeliveredShelves)]_vars

(* After a step under GLOBAL with one pickup and one delivery, both agents  *)
(* got 1 + 2.                                                               *)
C13_Witness ==
    /\ op = "step" /\ reward_type = "GLOBAL"
    /\ Len(delivered) = 1
    /\ \E i \in AgentIds : actions[i] = "TOGGLE_LOAD" /\ agents[i].carrying_shelf # None
    /\ \A i \in AgentIds : rewards[i] = 6

(* Agent i is on a goal cell on which a delivery occurs in the step         *)
DeliversOnGoal(i) ==
    \E s \in DeliveredShelves :
        <<mid'.shelfs[s].x, mid'.shelfs[s].y>> = <<mid'.agents[i].x, mid'.agents[i].y>>

(* C14: under INDIVIDUAL the reward of an agent is 1 if it picked up a      *)
(* requested shelf in the step, 2 if it is on a goal cell on which a        *)
(* delivery occurred, 0 otherwise (in half-units: 2, 4, 0); none for what   *)
(* another agent did.                                                       *)
C14_IndividualReward ==
    [][(StepTaken /\ reward_type = "INDIVIDUAL") =>
        \A i \in AgentIds :
            rewards'[i] = (IF i \in PickedUp THEN 2 ELSE 0)
                          + (IF DeliversOnGoal(i) THEN 4 ELSE 0)]_vars

(* After a step under INDIVIDUAL, the second agent picked up a shelf and    *)
(* got 1 while the first delivered one and got 2.                           *)
C14_Witness ==
    /\ op = "step" /\ reward_type = "INDIVIDUAL"
    /\ Len(delivered) = 1 /\ delivered[1].agent = 1
    /\ actions[2] = "TOGGLE_LOAD" /\ agents[2].carrying_shelf # None
    /\ rewards = <<4, 2>>

(* What the reward code pays a lone agent on goals[1] that starts the step  *)
(* with reward 0, under the INDIVIDUAL policy: for a pickup, for a delivery *)
LoneAgent ==
    [agents |-> <<[x |-> goals[1][1], y |-> goals[1][2], dir |-> "DOWN",
                   req_action |-> "NOOP", carrying_shelf |-> None,
                   has_delivered |-> FALSE]>>,
     grid |-> [agents |-> (goals[1] :> 1), shelfs |-> EmptyLayer],
     rewards |-> <<0>>]
IndividualPickupReward == PickupReward(LoneAgent, LoneAgent.grid, goals[1], "INDIVIDUAL").rewards[1]
IndividualDeliveryReward == DeliveryReward(LoneAgent, goals[1], "INDIVIDUAL").rewards[1]

(* Agent i picked up a shelf in the step just taken and delivers it in the  *)
(* step being taken: rewards[i] is its pickup payment, rewards'[i] its      *)
(* delivery payment                                                         *)
ShelfCycle(i) ==
    /\ op = "step"
    /\ actions[i] = "TOGGLE_LOAD"
    /\ agents[i].carrying_shelf # None
    /\ mid.agents[i].carrying_shelf = agents[i].carrying_shelf
    /\ cur_steps = 1
    /\ DeliversOnGoal(i)
    /\ agents[i].carrying_shelf \in DeliveredShelves

C16_DoneAtStepCap ==
    (op = "step" /\ error = "none" /\ max_inactivity_steps = None) =>
        /\ Len(dones) = n_agents
        /\ (max_steps # None /\ max_steps >= 1 /\ cur_steps <= max_steps)
           => \A i \in 1 .. n_agents : dones[i] = (cur_steps = max_steps)
        /\ max_steps = None => \A i \in 1 .. n_agents : ~ dones[i]

(* The second step of an episode with max_steps = 2 and no inactivity cap   *)
(* returned done.                                                           *)
C16_Witness ==
    /\ op = "step"
    /\ max_inactivity_steps = None /\ max_steps = 2
    /\ cur_steps = 2
    /\ \A i \in 1 .. n_agents : dones[i]

(* C17: after every step the inactivity counter is 0 if the step had a      *)
(* delivery and its previous value + 1 otherwise, the step counter is the   *)
(* number of steps since reset, and done is true for all agents exactly     *)
(* when the inactivity counter has reached its cap or the step counter its  *)
(* cap.                                                                     *)
C17_CountersAndDone ==
    [][/\ op' = "reset" => (cur_steps' = 0 /\ cur_inactive_steps' = 0)
       /\ StepTaken =>
           /\ cur_inactive_steps' =
                  IF DeliveredShelves # {} THEN 0 ELSE cur_inactive_steps + 1
           /\ cur_steps' = cur_steps + 1
           /\ \A i \in AgentIds :
               dones'[i] = (\/ (max_inactivity_steps # None
                                /\ cur_inactive_steps' >= max_inactivity_steps)
                            \/ (max_steps # None /\ cur_steps' >= max_steps))]_vars

(* The third step of an episode with inactivity cap 1 and no step cap came  *)
(* right after a delivery and returned done.                                *)
C17_Witness ==
    /\ op = "step"
    /\ max_inactivity_steps = 1 /\ max_steps = None
    /\ cur_steps = 3 /\ cur_inactive_steps = 1
    /\ \A i \in 1 .. n_agents : dones[i]

(* Shelf s stands on cell c: it is there and the agent on c, if any, does   *)
(* not carry it                                                             *)
StandsOn(s, c) ==
    /\ ShelfCell(s) = c
    /\ \A j \in AgentIds : AgentCell(j) = c => agents[j].carrying_shelf # s

(* C18: an agent carrying a shelf that requests FORWARD into a different    *)
(* cell holding a standing shelf gets NOOP: after the step its position and *)
(* its carried shelf's position are unchanged, whatever the others do.      *)
C18_StandingShelfBlocks ==
    [][StepTaken =>
        \A i \in AgentIds :
            (/\ agents[i].carrying_shelf # None
             /\ actions'[i] = "FORWARD"
             /\ Target(i) # AgentCell(i)
             /\ \E s \in ShelfIds : StandsOn(s, Target(i)))
            => /\ agents'[i].req_action = "NOOP"
               /\ Stays(i)
               /\ agents'[i].carrying_shelf = agents[i].carrying_shelf
               /\ shelfs'[agents[i].carrying_shelf] = shelfs[agents[i].carrying_shelf]]_vars

(* The cell one step from c in direction d, on or off the grid              *)
Ahead(c, d) ==
    IF d = "UP" THEN <<c[1], c[2] - 1>>
    ELSE IF d = "DOWN" THEN <<c[1], c[2] + 1>>
    ELSE IF d = "LEFT" THEN <<c[1] - 1, c[2]>>
    ELSE <<c[1] + 1, c[2]>>

(* C19: in every step each agent's position changes by at most one cell,    *)
(* and only in the direction it faces at the start of the step; every agent *)
(* stays within the grid, and an agent facing the grid boundary that        *)
(* requests FORWARD keeps its position.                                     *)
C19_OneCellAheadInsideGrid ==
    [][StepTaken =>
        \A i \in AgentIds :
            /\ <<agents'[i].x, agents'[i].y>> \in {AgentCell(i), Ahead(AgentCell(i), agents[i].dir)}
            /\ <<agents'[i].x, agents'[i].y>> \in Cells
            /\ (actions'[i] = "FORWARD" /\ Ahead(AgentCell(i), agents[i].dir) \notin Cells)
               => Stays(i)]_vars

(* After a step without delivery, an agent that had delivered a shelf in an *)
(* earlier step, so that it stood on the goal row facing the edge of the    *)
(* grid, requested FORWARD and is still there.                              *)
C19_Witness ==
    /\ op = "step" /\ delivered = <<>>
    /\ \E i \in AgentIds :
        /\ agents[i].has_delivered /\ agents[i].carrying_shelf = None
        /\ actions[i] = "FORWARD" /\ agents[i].req_action = "FORWARD"
        /\ agents[i].dir = "DOWN" /\ agents[i].y = GridH - 1
        /\ Ahead(AgentCell(i), agents[i].dir) \notin Cells

(* The next direction in the cyclic order UP, RIGHT, DOWN, LEFT             *)
NextDir(d) ==
    IF d = "UP" THEN "RIGHT" ELSE IF d = "RIGHT" THEN "DOWN"
    ELSE IF d = "DOWN" THEN "LEFT" ELSE "UP"
PrevDir(d) == CHOOSE e \in Direction : NextDir(e) = d

(* The agent a after the turn req, and after n such turns                   *)
Turned(a, req) == [a EXCEPT !.dir = req_direction(a, req)]
RECURSIVE TurnedTimes(_, _, _)
TurnedTimes(a, req, n) == IF n = 0 THEN a ELSE TurnedTimes(Turned(a, req), req, n - 1)

(* C20: RIGHT turns the agent to the next and LEFT to the previous          *)
(* direction of the cyclic order UP, RIGHT, DOWN, LEFT without changing its *)
(* position; LEFT then RIGHT, RIGHT then LEFT, four RIGHTs and four LEFTs   *)
(* restore the direction.                                                   *)
C20_TurnsCycleThroughDirections ==
    [][StepTaken =>
        \A i \in AgentIds :
            /\ actions'[i] = "RIGHT" => (agents'[i].dir = NextDir(agents[i].dir) /\ Stays(i))
            /\ actions'[i] = "LEFT" => (agents'[i].dir = PrevDir(agents[i].dir) /\ Stays(i))
            /\ Turned(Turned(agents[i], "LEFT"), "RIGHT").dir = agents[i].dir
            /\ Turned(Turned(agents[i], "RIGHT"), "LEFT").dir = agents[i].dir
            /\ TurnedTimes(agents[i], "RIGHT", 4).dir = agents[i].dir
            /\ TurnedTimes(agents[i], "LEFT", 4).dir = agents[i].dir]_vars

(* After the second step, the agent, spawned facing DOWN, has just turned   *)
(* RIGHT and faces DOWN again: its first step was a LEFT turn.              *)
C20_Witness ==
    /\ op = "step" /\ cur_steps = 2
    /\ Len(agents) = 1
    /\ actions[1] = "RIGHT" /\ agents[1].req_action = "RIGHT"
    /\ agents[1].dir = "DOWN"

(* The state the movement/toggle pass of a step starts from                 *)
PassStart ==
    [agents |-> agents, shelfs |-> shelfs, grid |-> grid,
     request_queue |-> request_queue, rewards |-> [i \in AgentIds |-> 0],
     carried_shelf |-> carried_shelf, delivered |-> <<>>, error |-> "none"]

(* The request queues that differ from the current one in that shelf s has  *)
(* given its slot to a shelf from outside the queue                         *)
QueuesWithout(s) ==
    {[request_queue EXCEPT ![IndexOf(request_queue, s)] = t] :
        t \in ShelfIds \ SeqToSet(request_queue)}

(* Agent i of the pass state st has let go of shelf s, which is where it was *)
Released(st, i, s) ==
    /\ st.agents[i].carrying_shelf = None
    /\ st.shelfs[s] = shelfs[s]

(* C21: TOGGLE_LOAD by an agent that carries a shelf releases the shelf     *)
(* (the agent no longer carries, the shelf stays on the cell) exactly when  *)
(* the agent's cell is not a highway cell and the shelf is not in the       *)
(* request queue; in every other case the agent keeps carrying the shelf.   *)
(* Stated of the step taken, and of the toggle code on the same state with  *)
(* the carried shelf replaced in the queue.                                 *)
C21_ToggleReleasesOffQueueOffHighway ==
    [][StepTaken =>
        \A i \in AgentIds :
            (agents[i].carrying_shelf # None /\ actions'[i] = "TOGGLE_LOAD") =>
                LET s == agents[i].carrying_shelf
                    off_highway == ~ is_highway(agents[i].x, agents[i].y)
                IN /\ IF off_highway /\ s \notin SeqToSet(request_queue)
                      THEN Released(mid', i, s)
                      ELSE mid'.agents[i].carrying_shelf = s
                   /\ s \in SeqToSet(request_queue) =>
                       \A q \in QueuesWithout(s) :
                           IF off_highway
                           THEN Released(Unload(PassStart, i, q), i, s)
                           ELSE Unload(PassStart, i, q).agents[i].carrying_shelf = s]_vars

(* After the third step the agent, which requested TOGGLE_LOAD and got no   *)
(* pickup payment, stands on a highway cell and carries a shelf: it carried *)
(* the shelf into the aisle and its toggle there released nothing.          *)
C21_Witness ==
    /\ op = "step" /\ cur_steps = 3
    /\ \E i \in AgentIds :
        /\ actions[i] = "TOGGLE_LOAD"
        /\ agents[i].carrying_shelf # None
        /\ rewards[i] = 0
        /\ is_highway(agents[i].x, agents[i].y)

(* C22 as stated: whenever an agent that carries a shelf performs           *)
(* TOGGLE_LOAD, its has_delivered flag is false after the movement/toggle   *)
(* pass, on highway and non-highway cells alike and whether or not the      *)
(* shelf is released.                                                       *)
C22_ToggleClearsFlagEverywhere ==
    [][StepTaken =>
        \A i \in AgentIds :
            (agents[i].carrying_shelf # None /\ actions'[i] = "TOGGLE_LOAD") =>
                ~ mid'.agents[i].has_delivered]_vars

(* C22 amended: ... its has_delivered flag is false after the pass when its *)
(* cell is not a highway cell, whether or not the shelf is released; on a   *)
(* highway cell the flag is what it was before the step.                    *)
C22_ToggleClearsFlagOffHighway ==
    [][StepTaken =>
        \A i \in AgentIds :
            (agents[i].carrying_shelf # None /\ actions'[i] = "TOGGLE_LOAD") =>
                IF is_highway(agents[i].x, agents[i].y)
                THEN mid'.agents[i].has_delivered = agents[i].has_delivered
                ELSE /\ ~ mid'.agents[i].has_delivered
                     /\ \A q \in QueuesWithout(agents[i].carrying_shelf) :
                         ~ Unload(PassStart, i, q).agents[i].has_delivered]_vars

(* After the second step the agent, which got its pickup payment and the    *)
(* flag in the first, requested TOGGLE_LOAD on the shelf cell with the      *)
(* shelf in its hands and has the flag cleared.                             *)
C22_Witness ==
    /\ op = "step" /\ cur_steps = 2 /\ reward_type = "TWO_STAGE"
    /\ \E i \in AgentIds :
        /\ actions[i] = "TOGGLE_LOAD"
        /\ agents[i].carrying_shelf # None
        /\ rewards[i] = 0
        /\ ~ is_highway(agents[i].x, agents[i].y)
        /\ ~ agents[i].has_delivered

(* The shelves located on cell c                                            *)
ShelvesOn(c) == {s \in ShelfIds : ShelfCell(s) = c}

(* The state of a fresh episode                                             *)
FreshEpisode ==
    /\ \A c \in Cells :
        Cardinality(ShelvesOn(c)) = IF is_highway(c[1], c[2]) THEN 0 ELSE 1
    /\ \A s \in ShelfIds : ShelfCell(s) = HomeCell(s)
    /\ Len(agents) = n_agents
    /\ \A i, j \in AgentIds : i # j => AgentCell(i) # AgentCell(j)
    /\ \A i \in AgentIds : agents[i].carrying_shelf = None
    /\ Len(request_queue) = request_queue_size
    /\ \A k \in 1 .. Len(request_queue) : request_queue[k] \in ShelfIds
    /\ \A k, l \in 1 .. Len(request_queue) : k # l => request_queue[k] # request_queue[l]
    /\ cur_steps = 0
    /\ cur_inactive_steps = 0

(* C23: after reset called in any state, initial or after any steps, there  *)
(* is exactly one shelf on every non-highway cell and none on a highway     *)
(* cell, each shelf is at its home cell, the agents are at pairwise         *)
(* distinct cells, no agent carries a shelf, the request queue holds        *)
(* request_queue_size distinct shelves, and both counters are 0.            *)
C23_ResetStartsFreshEpisode ==
    [][op' = "reset" => FreshEpisode']_vars

(* After a reset three agents stand on three cells, each under a requested  *)
(* shelf that is at its home cell.                                          *)
C23_Witness ==
    /\ op = "reset"
    /\ Len(agents) = 3
    /\ \A i \in AgentIds :
        \E s \in SeqToSet(request_queue) :
            ShelfCell(s) = AgentCell(i) /\ HomeCell(s) = AgentCell(i)

(* The k-th cell, in raster order, of the window around agent i             *)
WindowCell(i, k) ==
    <<agents[i].x - sensor_range + ((k - 1) % (2 * sensor_range + 1)),
      agents[i].y - sensor_range + ((k - 1) \div (2 * sensor_range + 1))>>

(* C24: the observation returned for each agent by reset and by every step  *)
(* agrees with the state at that moment: the self block holds the agent's   *)
(* own (x, y), carrying flag, direction and highway flag; for every cell of *)
(* the (2r+1) x (2r+1) window in raster order the agent-presence,           *)
(* shelf-presence and shelf-requested flags are set exactly when the cell   *)
(* holds an agent, holds a shelf, and holds a shelf in the request queue;   *)
(* cells outside the grid are reported as holding no agent and no shelf.    *)
C24_ObservationAgreesWithState ==
    (op # "init" /\ error = "none") =>
        \A i \in AgentIds :
            LET obs == make_obs(i) IN
            /\ obs.self.location = AgentCell(i)
            /\ obs.self.carrying_shelf = 1 <=> agents[i].carrying_shelf # None
            /\ obs.self.direction = DirValue(agents[i].dir)
            /\ obs.self.on_highway = 1 <=> is_highway(agents[i].x, agents[i].y)
            /\ Len(obs.sensors) = (2 * sensor_range + 1) * (2 * sensor_range + 1)
            /\ \A k \in 1 .. Len(obs.sensors) :
                LET c == WindowCell(i, k) IN
                /\ obs.sensors[k].has_agent = 1 <=> \E j \in AgentIds : AgentCell(j) = c
                /\ obs.sensors[k].has_shelf = 1 <=> \E s \in ShelfIds : ShelfCell(s) = c
                /\ obs.sensors[k].shelf_requested = 1
                       <=> \E s \in SeqToSet(request_queue) : ShelfCell(s) = c
                /\ c \notin Cells =>
                       (obs.sensors[k].has_agent = 0 /\ obs.sensors[k].has_shelf = 0)

(* C25: for every reachable state and every joint action, every agent that *)
(* the component resolution does not commit has FORWARD as its requested    *)
(* action after the standing-shelf rule, so the assertion on the failed     *)
(* agents never fails: an agent that requested NOOP, LEFT, RIGHT or         *)
(* TOGGLE_LOAD, or whose FORWARD targets its own cell at the boundary, or   *)
(* that the standing-shelf rule turned to NOOP, is committed (it keeps the  *)
(* requested action it had after that rule).                                *)
C25_FailedAgentsRequestedForward ==
    [][op' = "step" =>
        /\ error' # "AssertionError"
        /\ error' = "none" =>
            \A i \in AgentIds :
                /\ actions'[i] # "FORWARD" => agents'[i].req_action = actions'[i]
                /\ (actions'[i] = "FORWARD" /\ StandingShelfCancels(i, actions'))
                   => agents'[i].req_action = "NOOP"
                /\ (actions'[i] = "FORWARD" /\ Target(i) = AgentCell(i))
                   => agents'[i].req_action = "FORWARD"]_vars

(* After a step, an agent on the goal row facing the edge of the grid has   *)
(* kept its FORWARD, and an agent whose FORWARD would have taken its shelf  *)
(* onto a standing shelf in a cell without agent has NOOP.                  *)
C25_Witness ==
    /\ op = "step" /\ error = "none"
    /\ \E i, j \in AgentIds :
        /\ actions[i] = "FORWARD" /\ agents[i].req_action = "FORWARD"
        /\ req_location(agents[i], "FORWARD") = AgentCell(i)
        /\ actions[j] = "FORWARD" /\ agents[j].req_action = "NOOP"
        /\ agents[j].carrying_shelf # None
        /\ At(grid.agents, req_location(agents[j], "FORWARD")) = 0
        /\ \E s \in ShelfIds : ShelfCell(s) = req_location(agents[j], "FORWARD")

(* The agents that request FORWARD into cell c from another cell, and the   *)
(* agents whose intent edge leads into c from another cell                  *)
Contenders(c) ==
    {i \in AgentIds : actions'[i] = "FORWARD" /\ Target(i) = c /\ AgentCell(i) # c}
Followers(c) == {j \in AgentIds : IntentEdge(j, c) /\ AgentCell(j) # c}

(* Cell c holds neither an agent nor a shelf                                *)
EmptyCell(c) ==
    /\ \A j \in AgentIds : AgentCell(j) # c
    /\ \A s \in ShelfIds : ShelfCell(s) # c

SetMax(S) == IF S = {} THEN 0 ELSE CHOOSE m \in S : \A n \in S : n <= m

(* The number of agents of the longest chain that ends with agent i         *)
RECURSIVE ChainLen(_)
ChainLen(i) == 1 + SetMax({ChainLen(j) : j \in Followers(AgentCell(i))})

(* The agents that follow agent i, directly or through other followers      *)
RECURSIVE Behind(_)
Behind(i) == UNION {{j} \cup Behind(j) : j \in Followers(AgentCell(i))}

(* The followers of agent i that start a longest chain behind it            *)
Deepest(i) ==
    {j \in Followers(AgentCell(i)) :
        \A k \in Followers(AgentCell(i)) : ChainLen(k) <= ChainLen(j)}

(* The agents behind i on its longest chain, as far as that chain is the    *)
(* only longest one; and the agents on any of its longest chains            *)
RECURSIVE LongestBehind(_)
LongestBehind(i) ==
    IF Cardinality(Deepest(i)) # 1 THEN {}
    ELSE UNION {{j} \cup LongestBehind(j) : j \in Deepest(i)}
RECURSIVE AnyLongestBehind(_)
AnyLongestBehind(i) == UNION {{j} \cup AnyLongestBehind(j) : j \in Deepest(i)}

KeepsLink(i) == agents'[i].carrying_shelf = agents[i].carrying_shelf

(* The FORWARD of agent i was cancelled: by the standing-shelf rule, or      *)
(* forced to NOOP by the component resolution                               *)
ForwardCancelled(i) ==
    /\ actions'[i] = "FORWARD"
    /\ (StandingShelfCancels(i, actions') \/ agents'[i].req_action = "NOOP")

(* C27: a step leaves unchanged the position, direction and carried-shelf   *)
(* link of every agent that requested NOOP or whose FORWARD was cancelled;  *)
(* a committed FORWARD leaves the agent's direction and carried-shelf link  *)
(* unchanged by the movement pass; LEFT and RIGHT leave the agent's         *)
(* position and carried-shelf link unchanged.                               *)
C27_FrameOfTheActions ==
    [][StepTaken =>
        \A i \in AgentIds :
            /\ (actions'[i] = "NOOP" \/ ForwardCancelled(i)) =>
                (Stays(i) /\ agents'[i].dir = agents[i].dir /\ KeepsLink(i))
            /\ (actions'[i] = "FORWARD" /\ ~ ForwardCancelled(i)) =>
                /\ mid'.agents[i].dir = agents[i].dir
                /\ mid'.agents[i].carrying_shelf = agents[i].carrying_shelf
            /\ actions'[i] \in {"LEFT", "RIGHT"} => (Stays(i) /\ KeepsLink(i))]_vars

(* After a step without pickup, one agent has turned with its shelf in its  *)
(* hands and another, whose FORWARD was cancelled, still carries its own.   *)
C27_Witness ==
    /\ op = "step" /\ error = "none"
    /\ \A k \in AgentIds : rewards[k] = 0
    /\ \E i, j \in AgentIds :
        /\ actions[i] \in {"LEFT", "RIGHT"} /\ agents[i].carrying_shelf # None
        /\ actions[j] = "FORWARD" /\ agents[j].req_action = "NOOP"
        /\ agents[j].carrying_shelf # None

(* C28: at the end of reset and of every step, both grid layers equal what  *)
(* _recalc_grid would produce from the current agent and shelf position     *)
(* records: running it on the state changes no cell, also after a step in   *)
(* which the delivery code has patched the shelf layer.                     *)
C28_GridIsRecomputedGrid ==
    (op # "init" /\ error = "none") => grid = recalc_grid(agents, shelfs)

(* Shelf s was delivered in the step                                        *)
DeliveredInStep(s) == \E k \in 1 .. Len(delivered') : delivered'[k].shelf = s

(* C29: in every state reachable by reset followed by any sequence of       *)
(* steps, every shelf carried by an agent is a member of the request queue; *)
(* so the release branch of TOGGLE_LOAD is never taken (a carried shelf is  *)
(* still carried after the movement/toggle pass) and a picked-up shelf      *)
(* leaves its carrier only through delivery.                                *)
C29_CarriedShelfIsRequested ==
    [][(op' # "init" /\ error' = "none") =>
        /\ \A i \in 1 .. Len(agents') :
            agents'[i].carrying_shelf # None =>
                agents'[i].carrying_shelf \in SeqToSet(request_queue')
        /\ op' = "step" =>
            \A i \in AgentIds :
                agents[i].carrying_shelf # None =>
                    /\ mid'.agents[i].carrying_shelf = agents[i].carrying_shelf
                    /\ agents'[i].carrying_shelf # agents[i].carrying_shelf =>
                        /\ agents'[i].carrying_shelf = None
                        /\ DeliveredInStep(agents[i].carrying_shelf)]_vars

(* After a step with a delivery, the agent on the goal cell carries nothing *)
(* and another agent carries a shelf of the queue as it is now.             *)
C29_Witness ==
    /\ op = "step" /\ error = "none"
    /\ Len(delivered) = 1
    /\ delivered[1].agent \in AgentIds
    /\ agents[delivered[1].agent].carrying_shelf = None
    /\ \E i \in AgentIds :
        /\ agents[i].carrying_shelf # None
        /\ agents[i].carrying_shelf \in SeqToSet(request_queue)
        /\ request_queue[delivered[1].slot] # delivered[1].shelf

(* C30: after reset and after every step, every shelf that is not carried   *)
(* by any agent is located at its home cell, the non-highway cell it was    *)
(* created at.                                                              *)
C30_StandingShelfIsHome ==
    (op # "init" /\ error = "none") =>
        \A s \in ShelfIds :
            ~ Carried(s) =>
                /\ ShelfCell(s) = HomeCell(s)
                /\ ~ is_highway(shelfs[s].x, shelfs[s].y)
                /\ HomeCell(s) = <<NewShelfs[s].x, NewShelfs[s].y>>

(* After a step a delivered shelf stands on its home cell again, away from  *)
(* the goal cell it was delivered on, while another shelf is away from its  *)
(* home cell in the hands of an agent.                                      *)
C30_Witness ==
    /\ op = "step" /\ error = "none"
    /\ \E k \in 1 .. Len(delivered) :
        /\ ~ Carried(delivered[k].shelf)
        /\ ShelfCell(delivered[k].shelf) = HomeCell(delivered[k].shelf)
        /\ ShelfCell(delivered[k].shelf) # delivered[k].cell
    /\ \E s \in ShelfIds : Carried(s) /\ ShelfCell(s) # HomeCell(s)

(* The shelves that stand on the bottom row once the agents have moved.     *)
OnDeliveryRow == {s \in ShelfIds : mid'.shelfs[s].y = GridH - 1}

AllDone == op = "step" /\ error = "none" /\ \A i \in AgentIds : dones[i]

(* C32: once a step has returned done = true for all agents, every later    *)
(* step of the same episode, until the next reset, also returns done = true *)
(* for all agents, whichever cap ended the episode: a step that follows a   *)
(* step with done = true for all agents returns done = true for all agents. *)
C32_DoneStaysDone ==
    [][(AllDone /\ StepTaken) => AllDone']_vars

(* No call raises.                                                          *)
NoError == error = "none"

====
